---- MODULE Spec2Model ----
(***************************************************************************)
(* The artifact store of bmad_mcp_server (utils/state_manager.py) as a     *)
(* state machine of asyncio tasks.  One action is one run of a coroutine   *)
(* between two suspension points (a contended lock acquire, an aiofiles    *)
(* open/read/write/close); synchronous calls (exists, mkdir, unlink,       *)
(* datetime.now, json/yaml conversion) happen inside the action.           *)
(***************************************************************************)
EXTENDS Integers, Sequences, FiniteSets, TLC

(* ------------------------------ bounds --------------------------------- *)
\* calls the callers issue in one run, all callers together
MaxCalls == 2
\* largest stories counter of a ProjectMeta found on disk at construction
MaxPreCount == 1

(* ------------------------------ tasks ---------------------------------- *)
\* the task __init__ creates, and the coroutines that use the store
InitTask == "init"
\* the coroutine that constructed the store: it alone can run before InitTask
Creator == "c1"
Callers == {"c1", "c2"}
Tasks == {InitTask} \cup Callers
NoTask == "none"

(* ------------------------------ paths ---------------------------------- *)
\* path_in_bmad, split at its "/" and at the extension of its last segment
StoryMd == [segs |-> <<"stories">>, stem |-> "a", ext |-> "md"]
TestMd == [segs |-> <<"test">>, stem |-> "a", ext |-> "md"]
RootTxt == [segs |-> <<>>, stem |-> "notes", ext |-> "txt"]
Paths == {StoryMd, TestMd, RootTxt}

\* the directories _ensure_structure creates, relative to .bmad
Directories ==
    { <<>>, <<"prd">>, <<"stories">>, <<"architecture">>, <<"decisions">>,
      <<"ideation">>, <<"checklists">>, <<"templates">> }

\* the keys of artifact_count in a fresh ProjectMeta
CountedCategories ==
    {"prd", "stories", "architecture", "decisions", "ideation", "checklists"}

\* every artifact taken for a story
artifact_type_stories(path) == "stories"

\* path_in_bmad.split("/")[0] if "/" in path_in_bmad else "root"
artifact_type(path) == IF Len(path.segs) > 0 THEN path.segs[1] ELSE "root"

\* path_in_bmad.endswith('.md')
is_markdown(path) == path.ext = "md"

\* full_path.parent
parent(path) == path.segs

(* ------------------------------ text ----------------------------------- *)
\* A text is a sequence of tokens: the characters "-", " ", "\n", ":" and
\* letters, and YAML scalars (keys, values, timestamps) as one token each.
Whitespace == {" ", "\n"}
Dashes == <<"-", "-", "-">>

\* the content strings callers save
Contents == { <<" ", "x", "\n">>, <<"-", "-", "-", "x">> }

\* datetime.now().isoformat() at clock reading n
isoformat(n) == ToString(n)

\* metadata dicts, insertion-ordered: a sequence of <<key, value>>; None is <<>>
NoMetadata == << >>
Metadatas ==
    { NoMetadata,
      << <<"status", "draft">> >>,
      << <<"created_at", isoformat(0)>>, <<"updated_at", isoformat(0)>>,
         <<"status", "done">> >> }

Keys(m) == { m[i][1] : i \in 1..Len(m) }
Get(m, k) == m[CHOOSE i \in 1..Len(m) : m[i][1] = k][2]
\* m[k] = v on a dict: in place when the key exists, appended otherwise
Put(m, k, v) ==
    IF k \in Keys(m)
    THEN [i \in 1..Len(m) |-> IF m[i][1] = k THEN <<k, v>> ELSE m[i]]
    ELSE Append(m, <<k, v>>)

RECURSIVE yaml_dump(_)
\* yaml.dump(metadata, default_flow_style=False, sort_keys=False)
yaml_dump(m) ==
    IF m = << >> THEN << >>
    ELSE <<m[1][1], ":", " ", m[1][2], "\n">> \o yaml_dump(Tail(m))

\* s.startswith(prefix)
startswith(s, prefix) ==
    Len(s) >= Len(prefix) /\ SubSeq(s, 1, Len(prefix)) = prefix

\* s.find(sep): the first index where sep occurs in s, 0 when it does not
find(s, sep) ==
    LET hits == { i \in 1..(Len(s) - Len(sep) + 1) :
                    SubSeq(s, i, i + Len(sep) - 1) = sep }
    IN IF hits = {} THEN 0 ELSE CHOOSE i \in hits : \A j \in hits : i <= j

RECURSIVE split(_, _, _)
\* s.split(sep, maxsplit)
split(s, sep, maxsplit) ==
    LET i == find(s, sep)
    IN IF maxsplit = 0 \/ i = 0 THEN <<s>>
       ELSE <<SubSeq(s, 1, i - 1)>>
            \o split(SubSeq(s, i + Len(sep), Len(s)), sep, maxsplit - 1)

RECURSIVE lstrip(_)
lstrip(s) == IF s # << >> /\ s[1] \in Whitespace THEN lstrip(Tail(s)) ELSE s
RECURSIVE rstrip(_)
rstrip(s) ==
    IF s # << >> /\ s[Len(s)] \in Whitespace
    THEN rstrip(SubSeq(s, 1, Len(s) - 1)) ELSE s
\* s.strip()
strip(s) == rstrip(lstrip(s))

\* the lines of a YAML block, blank lines dropped
yaml_lines(s) ==
    LET ls == split(s, <<"\n">>, Len(s))
    IN SelectSeq(ls, LAMBDA l : strip(l) # << >>)

\* one "key: value" line
is_mapping_line(l) == Len(l) = 4 /\ l[2] = ":" /\ l[3] = " "

\* yaml.safe_load(block): a mapping, None for a blank block; a block that is
\* no "key: value" list loads as a scalar or raises yaml.YAMLError
yaml_safe_load(s) ==
    LET ls == yaml_lines(s)
    IN IF ls = << >> THEN [kind |-> "none", value |-> << >>]
       ELSE IF \A i \in 1..Len(ls) : is_mapping_line(ls[i])
       THEN [kind |-> "map",
             value |-> [i \in 1..Len(ls) |-> <<ls[i][1], ls[i][4]>>]]
       ELSE [kind |-> "other", value |-> << >>]

(* --------------------------- load / save text -------------------------- *)
\* a save that sets created_at whether or not the caller supplied one
stamp_metadata_always(metadata, now) ==
    Put(Put(metadata, "created_at", now), "updated_at", now)

\* save_artifact's metadata after "Ensure metadata has required fields"
stamp_metadata(metadata, now) ==
    LET m1 == IF "created_at" \notin Keys(metadata)
              THEN Put(metadata, "created_at", now) ELSE metadata
    IN Put(m1, "updated_at", now)

\* "if metadata and path_in_bmad.endswith('.md')"
has_frontmatter(path, metadata) == metadata # << >> /\ is_markdown(path)

\* file_content of save_artifact
file_content(path, content, metadata, now) ==
    IF has_frontmatter(path, metadata)
    THEN Dashes \o <<"\n">> \o yaml_dump(stamp_metadata(metadata, now))
         \o Dashes \o <<"\n", "\n">> \o content
    ELSE content

\* load_artifact's parse of raw_content: [content, metadata]
parse_artifact(path, raw_content) ==
    LET parts == split(raw_content, Dashes, 2)
        loaded == yaml_safe_load(parts[2])
    IN IF is_markdown(path) /\ startswith(raw_content, Dashes)
          /\ Len(parts) >= 3 /\ loaded.kind # "other"
       THEN [content |-> strip(parts[3]), metadata |-> loaded.value]
       ELSE [content |-> raw_content, metadata |-> << >>]

(* ------------------------------ ProjectMeta ---------------------------- *)
\* the phase names callers pass to update_project_phase
Phases == {"architecture_completed", "testing_phase"}

NoFile == [kind |-> "absent"]
\* open(..., 'w') truncates: the file exists and is empty until the write and
\* close; the other fields keep what it held (no reader of an empty file
\* looks at them)
truncated(file) == [file EXCEPT !.kind = "empty"]

\* the dict _init_project_meta builds, as the JSON file save_json writes
init_project_meta(now) ==
    [kind |-> "json",
     data |-> [bmad_version |-> "1.0",
               created_at |-> now,
               updated_at |-> now,
               current_phase |-> "initialization",
               artifact_count |-> [c \in CountedCategories |-> 0],
               phase_started_at |-> << >>]]

\* max(0, current_count + (1 if increment else -1))
next_count(current_count, increment) ==
    LET n == current_count + (IF increment THEN 1 ELSE -1)
    IN IF n > 0 THEN n ELSE 0

\* the dict _update_artifact_count saves
counted_meta(data, type, increment, now) ==
    [data EXCEPT !.artifact_count[type] = next_count(@, increment),
                 !.updated_at = now]

\* meta[f"phase_{phase}_started_at"] = now
stamp_phase(started, phase, now) ==
    [q \in (DOMAIN started) \cup {phase} |->
        IF q = phase THEN now ELSE started[q]]

\* an update that stamps the phase and leaves current_phase as it was
phased_meta_stale(data, phase, now) ==
    [data EXCEPT !.updated_at = now,
                 !.phase_started_at = stamp_phase(@, phase, now)]

\* the dict update_project_phase saves
phased_meta(data, phase, now) ==
    [data EXCEPT !.current_phase = phase,
                 !.updated_at = now,
                 !.phase_started_at = stamp_phase(@, phase, now)]

(* ------------------------------ state ---------------------------------- *)
VARIABLES
    pc,         \* where each task is suspended
    frame,      \* the locals of the call a task is in
    out,        \* how the last call of each task ended
    lockHolder, \* the task that holds self._lock, NoTask when it is free
    waiters,    \* the tasks waiting in self._lock.acquire(), first come first
    dirs,       \* the directories under .bmad that exist
    meta,       \* the file project_meta.json
    files,      \* the artifact files
    clock,      \* the next reading of datetime.now()
    calls,      \* calls issued so far
    hist,       \* per category: the counter found at construction, and the
                \* content writes and unlinks that happened since
    checklists  \* checklists/loader.py: CHECKLIST_DIR, _checklist_cache, the
                \* Checklist objects callers hold, the last call's result

vars ==
    <<pc, frame, out, lockHolder, waiters, dirs, meta, files, clock, calls,
      hist, checklists>>

\* the loader module before any checklist was loaded; the store does not use it
NoChecklists == [loaded |-> FALSE]

NoLoaded == [content |-> << >>, metadata |-> << >>]

NoFrame ==
    [op |-> "none", path |-> RootTxt, content |-> << >>, given |-> << >>,
     text |-> << >>, phase |-> "", increment |-> TRUE, data |-> NoFile,
     ctx |-> "none", pre |-> NoFile, fileDone |-> FALSE, countDone |-> FALSE,
     loaded |-> NoLoaded, src |-> NoFile,
     type |-> "", status |-> "", todo |-> << >>, artifacts |-> << >>,
     filesAt |-> << >>]

NoOut == [op |-> "none", outcome |-> "none"]

\* the counter of a category in a project_meta.json, 0 when there is none
count_of(file, type) ==
    IF file.kind = "absent" THEN 0 ELSE file.data.artifact_count[type]

\* a ProjectMeta an earlier run left on disk
PreMeta(k) ==
    [init_project_meta(isoformat(0)) EXCEPT !.data.artifact_count["stories"] = k]

Init ==
    /\ pc = [t \in Tasks |-> IF t = InitTask THEN "es_start" ELSE "idle"]
    /\ frame = [t \in Tasks |-> NoFrame]
    /\ out = [t \in Tasks |-> NoOut]
    /\ lockHolder = NoTask
    /\ waiters = << >>
    /\ \/ meta = NoFile /\ dirs = {}
       \/ \E k \in 0..MaxPreCount : meta = PreMeta(k) /\ dirs = Directories
    /\ files = [p \in Paths |-> NoFile]
    /\ clock = 1
    /\ calls = 0
    /\ hist = [c \in CountedCategories |->
                 [initial |-> count_of(meta, c), written |-> 0, unlinked |-> 0]]
    /\ checklists = NoChecklists

(* ------------------------------ scheduling ----------------------------- *)
\* the event loop has run the task __init__ created up to its first suspension
Started == pc[InitTask] # "es_start"

\* a caller may issue a call: the creator before the loop ran, others after
can_call(t) ==
    /\ t \in Callers /\ pc[t] = "idle" /\ calls < MaxCalls
    /\ (t = Creator \/ Started)

\* a suspended task resumes only once the loop runs, after InitTask's first turn
resumes(t, at) == pc[t] = at /\ Started

\* the call ends: the task is idle again, out holds the result
finish(t, fr, outcome, error, value) ==
    /\ pc' = [pc EXCEPT ![t] = "idle"]
    /\ frame' = [frame EXCEPT ![t] = NoFrame]
    /\ out' = [out EXCEPT ![t] =
                 [op |-> fr.op, outcome |-> outcome, error |-> error,
                  value |-> value, path |-> fr.path, phase |-> fr.phase,
                  fileDone |-> fr.fileDone, countDone |-> fr.countDone,
                  loaded |-> fr.loaded, src |-> fr.src,
                  type |-> fr.type, status |-> fr.status,
                  artifacts |-> fr.artifacts]]
    /\ UNCHANGED checklists

\* the call waits at a suspension point
suspend(t, fr, at) ==
    /\ pc' = [pc EXCEPT ![t] = at]
    /\ frame' = [frame EXCEPT ![t] = fr]
    /\ out' = out
    /\ UNCHANGED checklists

(* ------------------------------ self._lock ----------------------------- *)
\* asyncio.Lock.acquire() returns at once: the lock is free (a free lock has
\* no waiters).  The lock is not reentrant: its holder waits like any task.
lock_free == lockHolder = NoTask

\* acquire() of a task that had to wait returns: release() gave it the lock
granted(t) == lockHolder = t /\ \A i \in 1..Len(waiters) : waiters[i] # t

\* acquire() on a held lock: the task joins the waiters
enqueue(t) == lockHolder' = lockHolder /\ waiters' = Append(waiters, t)

\* the lock is taken, or kept after a grant
hold(t) == lockHolder' = t /\ waiters' = waiters

\* release(): the first waiter, if any, gets the lock
release ==
    IF waiters = << >>
    THEN lockHolder' = NoTask /\ waiters' = waiters
    ELSE lockHolder' = Head(waiters) /\ waiters' = Tail(waiters)

nolock == UNCHANGED <<lockHolder, waiters>>

(* ------------------------------ files ---------------------------------- *)
\* directory.mkdir(parents=True, exist_ok=True): the directory and its ancestors
mkdir(d) == { SubSeq(d, 1, n) : n \in 0..Len(d) }

\* an _ensure_structure that initializes without looking
meta_path_exists_unchecked == FALSE

\* meta_path.exists() in _ensure_structure
meta_path_exists == meta.kind # "absent"

\* full_path.exists() in load_json("project_meta.json")
json_exists == meta.kind # "absent"

\* one more content write or unlink in the category of path
noted(path, what) ==
    LET type == artifact_type(path)
    IN IF type \notin CountedCategories THEN hist
       ELSE IF what = "written"
       THEN [hist EXCEPT ![type].written = @ + 1]
       ELSE [hist EXCEPT ![type].unlinked = @ + 1]

(* ------------------------------ save_json ------------------------------ *)
\* under the lock: mkdir, open(full_path, 'w') that truncates the file
save_json_body(t, fr) ==
    /\ dirs' = dirs \cup mkdir(<< >>)
    /\ meta' = truncated(meta)
    /\ suspend(t, fr, "sj_write")

\* save_json("project_meta.json", fr.data) called by a task that does not
\* hold the lock, up to its first suspension
save_json(t, fr) ==
    IF lock_free
    THEN hold(t) /\ save_json_body(t, fr)
    ELSE enqueue(t) /\ suspend(t, fr, "sj_wait") /\ UNCHANGED <<dirs, meta>>

\* save_json called inside the caller's own "async with self._lock": the
\* lock is held, by the caller itself, so acquire() waits
save_json_nested(t, fr) ==
    /\ lockHolder' = t
    /\ waiters' = Append(waiters, t)
    /\ suspend(t, fr, "sj_wait")

\* acquire() returned to a save_json that waited
save_json_locked(t) ==
    /\ resumes(t, "sj_wait")
    /\ granted(t)
    /\ hold(t)
    /\ save_json_body(t, frame[t])
    /\ UNCHANGED <<files, clock, calls, hist>>

\* the JSON is written and the file closed; save_json leaves its "async
\* with" and returns into the caller named by ctx (a caller that held the
\* lock itself then releases a lock that is no longer held: RuntimeError)
save_json_written(t) ==
    LET fr == frame[t]
    IN /\ resumes(t, "sj_write")
       /\ meta' = fr.data
       /\ release
       /\ CASE fr.ctx = "upp" -> finish(t, fr, "ok", "", "None")
            [] fr.ctx = "uac" /\ fr.op = "delete_artifact" ->
                 finish(t, [fr EXCEPT !.countDone = TRUE], "ok", "", "False")
            [] fr.ctx = "uac" /\ fr.op # "delete_artifact" ->
                 finish(t, [fr EXCEPT !.countDone = TRUE], "raise",
                        "RuntimeError", "None")
            [] OTHER -> finish(t, fr, "raise", "RuntimeError", "None")
       /\ UNCHANGED <<dirs, files, clock, calls, hist>>

(* ------------------------- _ensure_structure --------------------------- *)
\* the body under the lock: the mkdirs, then, when project_meta.json is not
\* there, _init_project_meta up to the save_json it calls
ensure_body(t) ==
    LET fr == [NoFrame EXCEPT !.op = "ensure_structure"]
    IN /\ dirs' = dirs \cup UNION { mkdir(d) : d \in Directories }
       /\ IF meta_path_exists
          THEN /\ release
               /\ finish(t, fr, "ok", "", "None")
               /\ clock' = clock
          ELSE /\ save_json_nested(t,
                     [fr EXCEPT !.ctx = "init",
                                !.data = init_project_meta(isoformat(clock))])
               /\ clock' = clock + 1
       /\ UNCHANGED <<meta, files, hist>>

\* the call up to its first suspension
ensure_call(t) ==
    IF lock_free THEN ensure_body(t)
    ELSE /\ enqueue(t)
         /\ suspend(t, [NoFrame EXCEPT !.op = "ensure_structure"], "es_wait")
         /\ UNCHANGED <<dirs, meta, files, clock, hist>>

\* asyncio.create_task(self._ensure_structure()): the task's first turn
create_task_ensure_structure ==
    /\ pc[InitTask] = "es_start"
    /\ ensure_call(InitTask)
    /\ UNCHANGED calls

\* a further run of _ensure_structure on the same store
ensure_structure(t) ==
    /\ can_call(t)
    /\ calls' = calls + 1
    /\ ensure_call(t)

ensure_structure_locked(t) ==
    /\ resumes(t, "es_wait")
    /\ granted(t)
    /\ ensure_body(t)
    /\ UNCHANGED calls

(* ------------------------- _update_artifact_count ---------------------- *)
\* save_artifact or delete_artifact returns, leaving its "async with"
return_locked(t, fr) ==
    /\ release
    /\ finish(t, fr, "ok", "",
              IF fr.op = "save_artifact" THEN "location" ELSE "True")

\* called under the caller's lock, up to load_json's exists check: the
\* FileNotFoundError is caught and logged
update_artifact_count(t, fr) ==
    IF json_exists
    THEN hold(t) /\ suspend(t, fr, "uac_read")
    ELSE return_locked(t, fr)

\* load_json has read project_meta.json: the count is changed and saved when
\* the category is a key of artifact_count; a JSON error is caught and logged
update_artifact_count_read(t) ==
    LET fr == frame[t]
        type == artifact_type(fr.path)
    IN /\ resumes(t, "uac_read")
       /\ IF meta.kind = "json" /\ type \in DOMAIN meta.data.artifact_count
          THEN /\ save_json_nested(t,
                     [fr EXCEPT !.ctx = "uac",
                                !.data = [meta EXCEPT !.data =
                                            counted_meta(meta.data, type,
                                                fr.increment,
                                                isoformat(clock))]])
               /\ clock' = clock + 1
          ELSE /\ return_locked(t, fr)
               /\ clock' = clock
       /\ UNCHANGED <<dirs, meta, files, calls, hist>>

(* ------------------------------ save_artifact -------------------------- *)
\* under the lock: mkdir, the metadata stamps, open(full_path, 'w')
save_body(t, fr) ==
    LET now == isoformat(clock)
    IN /\ hold(t)
       /\ dirs' = dirs \cup mkdir(parent(fr.path))
       /\ files' = [files EXCEPT ![fr.path] =
                      [kind |-> "text", text |-> << >>, content |-> fr.content,
                       given |-> fr.given, at |-> now, complete |-> FALSE]]
       /\ suspend(t, [fr EXCEPT !.text =
                         file_content(fr.path, fr.content, fr.given, now)],
                  "sa_write")
       /\ clock' = clock + 1
       /\ UNCHANGED <<meta, hist>>

save_artifact(t, path, content, metadata) ==
    LET fr == [NoFrame EXCEPT !.op = "save_artifact", !.path = path,
                              !.content = content, !.given = metadata]
    IN /\ can_call(t)
       /\ calls' = calls + 1
       /\ IF lock_free THEN save_body(t, fr)
          ELSE /\ enqueue(t)
               /\ suspend(t, fr, "sa_wait")
               /\ UNCHANGED <<dirs, meta, files, clock, hist>>

save_artifact_locked(t) ==
    /\ resumes(t, "sa_wait")
    /\ granted(t)
    /\ save_body(t, frame[t])
    /\ UNCHANGED calls

\* f.write(file_content) and the close are done; then the counter update
save_artifact_written(t) ==
    LET fr == [frame[t] EXCEPT !.fileDone = TRUE]
    IN /\ resumes(t, "sa_write")
       /\ files' = [files EXCEPT ![fr.path] =
                      [@ EXCEPT !.text = fr.text, !.complete = TRUE]]
       /\ hist' = noted(fr.path, "written")
       /\ update_artifact_count(t, fr)
       /\ UNCHANGED <<dirs, meta, clock, calls>>

(* ------------------------------ delete_artifact ------------------------ *)
\* under the lock: unlink and the counter update when the file exists
delete_body(t, fr) ==
    /\ IF files[fr.path].kind # "absent"
       THEN /\ files' = [files EXCEPT ![fr.path] = NoFile]
            /\ hist' = noted(fr.path, "unlinked")
            /\ update_artifact_count(t, [fr EXCEPT !.fileDone = TRUE])
       ELSE /\ release
            /\ finish(t, fr, "ok", "", "False")
            /\ UNCHANGED <<files, hist>>
    /\ UNCHANGED <<dirs, meta, clock>>

delete_artifact(t, path) ==
    LET fr == [NoFrame EXCEPT !.op = "delete_artifact", !.path = path,
                              !.increment = FALSE]
    IN /\ can_call(t)
       /\ calls' = calls + 1
       /\ IF lock_free THEN delete_body(t, fr)
          ELSE /\ enqueue(t)
               /\ suspend(t, fr, "da_wait")
               /\ UNCHANGED <<dirs, meta, files, clock, hist>>

delete_artifact_locked(t) ==
    /\ resumes(t, "da_wait")
    /\ granted(t)
    /\ delete_body(t, frame[t])
    /\ UNCHANGED calls

(* ------------------------------ update_project_phase ------------------- *)
\* up to load_json's exists check
update_project_phase(t, phase) ==
    LET fr == [NoFrame EXCEPT !.op = "update_project_phase", !.phase = phase,
                              !.pre = meta]
    IN /\ can_call(t)
       /\ calls' = calls + 1
       /\ IF json_exists THEN suspend(t, fr, "upp_read")
          ELSE finish(t, fr, "raise", "FileNotFoundError", "None")
       /\ nolock
       /\ UNCHANGED <<dirs, meta, files, clock, hist>>

\* load_json has read the file (the close of the file is one more
\* suspension); a file that is empty raises JSONDecodeError
update_project_phase_read(t) ==
    LET fr == frame[t]
    IN /\ resumes(t, "upp_read")
       /\ IF meta.kind = "json"
          THEN suspend(t, [fr EXCEPT !.data = meta], "upp_save")
          ELSE finish(t, fr, "raise", "JSONDecodeError", "None")
       /\ nolock
       /\ UNCHANGED <<dirs, meta, files, clock, calls, hist>>

\* the dict that was loaded is changed and handed to save_json
update_project_phase_save(t) ==
    LET fr == frame[t]
    IN /\ resumes(t, "upp_save")
       /\ save_json(t,
             [fr EXCEPT !.ctx = "upp",
                        !.data = [fr.data EXCEPT !.data =
                                    phased_meta(fr.data.data, fr.phase,
                                                isoformat(clock))]])
       /\ clock' = clock + 1
       /\ UNCHANGED <<files, calls, hist>>

(* ------------------------------ load_artifact -------------------------- *)
\* up to the exists check
load_artifact(t, path) ==
    LET fr == [NoFrame EXCEPT !.op = "load_artifact", !.path = path]
    IN /\ can_call(t)
       /\ calls' = calls + 1
       /\ IF files[path].kind # "absent" THEN suspend(t, fr, "la_read")
          ELSE finish(t, fr, "raise", "FileNotFoundError", "None")
       /\ nolock
       /\ UNCHANGED <<dirs, meta, files, clock, hist>>

\* a load that answers for a file that is gone with an empty artifact
load_artifact_read_default(t) ==
    /\ resumes(t, "la_read")
    /\ finish(t, [frame[t] EXCEPT !.src = files[frame[t].path]],
              "ok", "", "artifact")
    /\ nolock
    /\ UNCHANGED <<dirs, meta, files, clock, calls, hist>>

\* the file is opened and read, the frontmatter parsed
load_artifact_read(t) ==
    LET fr == frame[t]
        file == files[fr.path]
    IN /\ resumes(t, "la_read")
       /\ IF file.kind # "absent"
          THEN finish(t, [fr EXCEPT !.src = file,
                             !.loaded = parse_artifact(fr.path, file.text)],
                      "ok", "", "artifact")
          ELSE finish(t, fr, "raise", "FileNotFoundError", "None")
       /\ nolock
       /\ UNCHANGED <<dirs, meta, files, clock, calls, hist>>

(* ------------------------------ list_artifacts ------------------------- *)
\* artifact_type arguments: None (""), a category, a directory that is not there
ListTypes == {"", "stories", "drafts"}
\* status_filter arguments: None ("") or a status
ListStatuses == {"", "draft"}

\* the paths search_dir.rglob("*.md") can yield
in_search_dir(path, type) ==
    is_markdown(path) /\ (type = "" \/ artifact_type(path) = type)

\* the orders in which rglob may come to the paths of S
orders(S) ==
    { o \in [1..Cardinality(S) -> S] :
        \A i, j \in 1..Cardinality(S) : o[i] = o[j] => i = j }

\* the timestamp a is later than b; "" (no updated_at) is before all
later(a, b) ==
    /\ a # ""
    /\ \/ b = ""
       \/ \E i, j \in 0..clock :
             i > j /\ a = isoformat(i) /\ b = isoformat(j)

\* metadata.get(key, default)
get(metadata, key, default) ==
    IF key \in Keys(metadata) THEN Get(metadata, key) ELSE default

\* the dict list_artifacts appends for a loaded artifact
artifact_summary(path, info) ==
    [path |-> path,
     type |-> artifact_type(path),
     status |-> get(info.metadata, "status", "unknown"),
     created_at |-> get(info.metadata, "created_at", ""),
     updated_at |-> get(info.metadata, "updated_at", "")]

\* "if status_filter: ... if artifact_status != status_filter: continue"
passes_filter(info, status) ==
    status = "" \/ get(info.metadata, "status", "") = status

\* x put into a list that is sorted by updated_at descending, behind the
\* entries that are not earlier than x (the sort is stable)
insert_desc(sorted_list, x) ==
    LET k == Cardinality({ i \in 1..Len(sorted_list) :
                ~later(x.updated_at, sorted_list[i].updated_at) })
    IN SubSeq(sorted_list, 1, k) \o <<x>>
       \o SubSeq(sorted_list, k + 1, Len(sorted_list))

\* a listing returned in the order rglob came to the files
sorted_desc_unsorted(artifacts) == artifacts

RECURSIVE sorted_desc(_)
\* sorted(artifacts, key=lambda x: x.get("updated_at", ""), reverse=True)
sorted_desc(artifacts) ==
    IF artifacts = << >> THEN << >>
    ELSE insert_desc(sorted_desc(SubSeq(artifacts, 1, Len(artifacts) - 1)),
                     artifacts[Len(artifacts)])

RECURSIVE found(_)
\* rglob goes on: the paths left, from the first whose file is there now
found(todo) ==
    IF todo = << >> \/ files[Head(todo)].kind # "absent" THEN todo
    ELSE found(Tail(todo))

\* the loop up to the open of the next file's load_artifact, or to the return
list_next(t, fr) ==
    LET rest == found(fr.todo)
    IN IF rest = << >>
       THEN finish(t, [fr EXCEPT !.todo = << >>,
                                 !.artifacts = sorted_desc(fr.artifacts)],
                   "ok", "", "artifacts")
       ELSE suspend(t, [fr EXCEPT !.todo = rest], "ls_read")

list_artifacts(t, type, status) ==
    LET fr == [NoFrame EXCEPT !.op = "list_artifacts", !.type = type,
                              !.status = status, !.filesAt = files]
    IN /\ can_call(t)
       /\ calls' = calls + 1
       /\ IF type # "" /\ <<type>> \notin dirs
          THEN finish(t, fr, "ok", "", "artifacts")
          ELSE \E o \in orders({ p \in Paths : in_search_dir(p, type) }) :
                  list_next(t, [fr EXCEPT !.todo = o])
       /\ nolock
       /\ UNCHANGED <<dirs, meta, files, clock, hist>>

\* load_artifact of the file rglob found has opened and read it, or raised
\* (logged, the file is skipped); the summary is appended when it passes the
\* filter; then the loop goes on
list_artifacts_read(t) ==
    LET fr == frame[t]
        path == Head(fr.todo)
        file == files[path]
        info == parse_artifact(path, file.text)
        appended ==
            IF file.kind # "absent" /\ passes_filter(info, fr.status)
            THEN Append(fr.artifacts, artifact_summary(path, info))
            ELSE fr.artifacts
    IN /\ resumes(t, "ls_read")
       /\ list_next(t, [fr EXCEPT !.todo = Tail(@), !.artifacts = appended])
       /\ nolock
       /\ UNCHANGED <<dirs, meta, files, clock, calls, hist>>

(* ------------------------------ the store ------------------------------ *)
Next ==
    \/ create_task_ensure_structure
    \/ \E t \in Callers : ensure_structure(t)
    \/ \E t \in Callers, path \in Paths, content \in Contents,
          metadata \in Metadatas : save_artifact(t, path, content, metadata)
    \/ \E t \in Callers, path \in Paths : delete_artifact(t, path)
    \/ \E t \in Callers, phase \in Phases : update_project_phase(t, phase)
    \/ \E t \in Callers, path \in Paths : load_artifact(t, path)
    \/ \E t \in Tasks : ensure_structure_locked(t)
    \/ \E t \in Tasks : save_artifact_locked(t)
    \/ \E t \in Tasks : save_artifact_written(t)
    \/ \E t \in Tasks : delete_artifact_locked(t)
    \/ \E t \in Tasks : update_artifact_count_read(t)
    \/ \E t \in Tasks : update_project_phase_read(t)
    \/ \E t \in Tasks : update_project_phase_save(t)
    \/ \E t \in Tasks : load_artifact_read(t)
    \/ \E t \in Tasks : save_json_locked(t)
    \/ \E t \in Tasks : save_json_written(t)

Spec == Init /\ [][Next]_vars

(* ------------- the store on a project an earlier run left -------------- *)
\* the file a completed save_artifact(path, content, metadata) at clock
\* reading n left
saved_file(path, content, metadata, n) ==
    [kind |-> "text",
     text |-> file_content(path, content, metadata, isoformat(n)),
     content |-> content, given |-> metadata, at |-> isoformat(n),
     complete |-> TRUE]

\* what callers save on such a project
StoredContent == <<" ", "x", "\n">>
StoredMetadata == << <<"status", "draft">> >>
StoredPaths == {StoryMd, TestMd}

\* the documents of the earlier run: stories/a.md, saved first, may be there;
\* test/a.md, saved after it, is there
StoredStory == saved_file(StoryMd, StoredContent, StoredMetadata, 1)
StoredTest ==
    saved_file(TestMd, <<"-", "-", "-", "x">>, << <<"status", "done">> >>, 2)

\* StateManager(project_root) on a root with project_meta.json and documents
InitStored ==
    /\ pc = [t \in Tasks |-> IF t = InitTask THEN "es_start" ELSE "idle"]
    /\ frame = [t \in Tasks |-> NoFrame]
    /\ out = [t \in Tasks |-> NoOut]
    /\ lockHolder = NoTask
    /\ waiters = << >>
    /\ \E k \in 0..MaxPreCount : meta = PreMeta(k)
    /\ dirs = Directories \cup mkdir(parent(TestMd))
    /\ \E story \in {NoFile, StoredStory} :
          files = [p \in Paths |->
                     IF p = StoryMd THEN story
                     ELSE IF p = TestMd THEN StoredTest ELSE NoFile]
    /\ clock = 3
    /\ calls = 0
    /\ hist = [c \in CountedCategories |->
                 [initial |-> count_of(meta, c), written |-> 0, unlinked |-> 0]]
    /\ checklists = NoChecklists

NextStored ==
    \/ create_task_ensure_structure
    \/ \E t \in Callers, path \in StoredPaths :
          save_artifact(t, path, StoredContent, StoredMetadata)
    \/ \E t \in Callers, path \in StoredPaths : delete_artifact(t, path)
    \/ \E t \in Callers, path \in StoredPaths : load_artifact(t, path)
    \/ \E t \in Callers, type \in ListTypes, status \in ListStatuses :
          list_artifacts(t, type, status)
    \/ \E t \in Tasks : list_artifacts_read(t)
    \/ \E t \in Tasks : ensure_structure_locked(t)
    \/ \E t \in Tasks : save_artifact_locked(t)
    \/ \E t \in Tasks : save_artifact_written(t)
    \/ \E t \in Tasks : delete_artifact_locked(t)
    \/ \E t \in Tasks : update_artifact_count_read(t)
    \/ \E t \in Tasks : load_artifact_read(t)

SpecStored == InitStored /\ [][NextStored]_vars

(* ----------------------- checklists/loader.py: parser ------------------ *)
\* A checklist source is a text as above: "#", "-", "[", "]", " ", "\n" and
\* words are one token each.
RECURSIVE replace(_, _)
\* s.replace(old, '')
replace(s, old) ==
    LET i == find(s, old)
    IN IF i = 0 THEN s
       ELSE SubSeq(s, 1, i - 1)
            \o replace(SubSeq(s, i + Len(old), Len(s)), old)

ItemMark == <<"-", " ", "[", " ", "]">>

\* Checklist(name=checklist_name)
new_checklist(checklist_name) ==
    [name |-> checklist_name, sections |-> << >>, total_items |-> 0]

\* ChecklistSection(title=section_title)
new_section(section_title) ==
    [title |-> section_title, description |-> << >>, items |-> << >>]

\* the section put in front of the sections of the checklist
with_section_in_front(checklist, current) ==
    IF current = << >> THEN checklist
    ELSE [checklist EXCEPT !.sections = current \o @]

\* checklist.sections.append(current_section) when there is a current section;
\* current is << >> for None, <<section>> otherwise
with_section(checklist, current) ==
    IF current # << >>
    THEN [checklist EXCEPT !.sections = Append(@, current[1])]
    ELSE checklist

\* an item that is counted and not kept
with_item_dropped(section, line) == section

\* the item of a "- [ ]" line, added to the current section
with_item(section, line) ==
    [section EXCEPT !.items =
        Append(@, [text |-> strip(replace(line, ItemMark)),
                   required |-> TRUE,
                   category |-> section.title])]

\* a description line, joined to the section's description
with_description(section, line) ==
    [section EXCEPT !.description =
        IF @ # << >> THEN @ \o <<" ">> \o line ELSE line]

RECURSIVE parse_lines(_, _, _)
\* the loop of _parse_checklist_content over the lines left, and what
\* follows it
parse_lines(lines, checklist, current) ==
    IF lines = << >> THEN with_section(checklist, current)
    ELSE
      LET line == strip(Head(lines))
          rest == Tail(lines)
      IN IF startswith(line, <<"#", "#">>)
            /\ ~startswith(line, <<"#", "#", "#">>)
         THEN parse_lines(rest, with_section(checklist, current),
                          <<new_section(strip(replace(line, <<"#">>)))>>)
         ELSE IF startswith(line, ItemMark)
         THEN IF current # << >>
              THEN parse_lines(rest,
                        [checklist EXCEPT !.total_items = @ + 1],
                        <<with_item(current[1], line)>>)
              ELSE parse_lines(rest, checklist, current)
         ELSE IF current # << >> /\ line # << >>
                 /\ ~startswith(line, <<"#">>) /\ ~startswith(line, <<"-">>)
         THEN parse_lines(rest, checklist,
                          <<with_description(current[1], line)>>)
         ELSE parse_lines(rest, checklist, current)

\* a parser that opens a section "General" for the items before the first
\* heading
parse_checklist_content_general(content, checklist_name) ==
    parse_lines(split(content, <<"\n">>, Len(content)),
                new_checklist(checklist_name),
                <<new_section(<<"General">>)>>)

\* _parse_checklist_content(content, checklist_name)
parse_checklist_content(content, checklist_name) ==
    parse_lines(split(content, <<"\n">>, Len(content)),
                new_checklist(checklist_name), << >>)

(* ----------------------- checklists/loader.py: evaluator --------------- *)
\* A document is [text, length]: its tokens, and len(document_content).
\* str.lower() of a token
lower(w) ==
    CASE w = "Clear" -> "clear"
      [] w = "Goal" -> "goal"
      [] w = "Optional" -> "optional"
      [] OTHER -> w

\* text.lower()
lowered(text) == [i \in 1..Len(text) |-> lower(text[i])]

\* <<w, part>>: part is a substring of the word w, for the words used here
Infixes ==
    { <<"clearly", "clear">>, <<"testing", "test">>, <<"technical", "tech">>,
      <<"build", "ui">>, <<"checklist", "list">>, <<"goals", "goal">> }

\* "phrase in text": a word is found inside a token, a phrase of several
\* tokens as these tokens in a row
occurs(text, phrase) ==
    IF Len(phrase) = 1
    THEN \E i \in 1..Len(text) :
            text[i] = phrase[1] \/ <<text[i], phrase[1]>> \in Infixes
    ELSE find(text, phrase) # 0

\* text.count(ch)
count(text, ch) == Cardinality({ i \in 1..Len(text) : text[i] = ch })

\* the keys of evaluation_rules, in the order of the dict
RuleKeywords ==
    <<"clear", "goal", "requirement", "user", "story", "acceptance", "epic",
      "architecture", "technical", "testing", "security", "section", "list",
      "table", "comprehensive", "detailed", "brief">>

\* evaluation_rules[keyword]() on the document
rule(keyword, doc) ==
    LET doc_lower == lowered(doc.text)
        any(words) == \E w \in words : occurs(doc_lower, <<w>>)
    IN CASE keyword = "clear" ->
              any({"clear", "clearly", "specific", "detailed"})
         [] keyword = "goal" -> any({"goal"})
         [] keyword = "requirement" ->
              any({"requirement", "must", "should", "shall"})
         [] keyword = "user" -> any({"user"})
         [] keyword = "story" -> any({"story"})
         [] keyword = "acceptance" -> any({"acceptance"}) \/ any({"criteria"})
         [] keyword = "epic" -> any({"epic"})
         [] keyword = "architecture" -> any({"architecture"})
         [] keyword = "technical" -> any({"technical", "technology", "tech"})
         [] keyword = "testing" -> any({"test", "testing", "quality"})
         [] keyword = "security" -> any({"security"})
         [] keyword = "section" -> count(doc_lower, "#") >= 3
         [] keyword = "list" -> count(doc_lower, "-") >= 3
         [] keyword = "table" -> any({"|"})
         [] keyword = "comprehensive" -> doc.length > 2000
         [] keyword = "detailed" -> doc.length > 1000
         [] keyword = "brief" -> doc.length < 1000

\* class ValidationMode
ValidationModes == {"strict", "standard", "lenient"}

NaKeywords == { <<"if", " ", "applicable">>, <<"if", " ", "needed">>,
                <<"optional">> }

\* an applicability check that does not look at the item
not_applicable_any_item(item_text, doc_lower) ==
    ~\E keyword \in {"ui", "frontend", "api", "database"} :
        occurs(doc_lower, <<keyword>>)

\* the item is optional and the document is about none of ui, frontend,
\* api, database
not_applicable(item_text, doc_lower) ==
    /\ \E na_keyword \in NaKeywords : occurs(item_text, na_keyword)
    /\ ~\E keyword \in {"ui", "frontend", "api", "database"} :
          occurs(doc_lower, <<keyword>>)

\* the shares of standard and lenient mode exchanged
passes_exchanged(pass_count, total_rules, mode) ==
    CASE mode = "strict" -> pass_count = total_rules
      [] mode = "standard" -> pass_count * 2 >= total_rules
      [] OTHER -> pass_count * 10 >= total_rules * 7

\* a standard mode in which six of ten rules are enough
passes_loose(pass_count, total_rules, mode) ==
    CASE mode = "strict" -> pass_count = total_rules
      [] mode = "standard" -> pass_count * 10 >= total_rules * 6
      [] OTHER -> pass_count * 2 >= total_rules

\* "pass" if pass_count meets the mode's share of total_rules (the code
\* compares with total_rules * 0.7 and total_rules * 0.5 in floating point;
\* for up to 17 rules that is the same as the comparison of integers here)
passes(pass_count, total_rules, mode) ==
    CASE mode = "strict" -> pass_count = total_rules
      [] mode = "standard" -> pass_count * 10 >= total_rules * 7
      [] OTHER -> pass_count * 2 >= total_rules

\* recommendations that look for "goal" before "clear"
item_recommendation_goal_first(item_text) ==
    IF occurs(item_text, <<"goal">>) THEN "Define clear goals"
    ELSE IF occurs(item_text, <<"clear">>) THEN "Add more specific"
    ELSE IF occurs(item_text, <<"requirement">>) THEN "Add requirements"
    ELSE IF occurs(item_text, <<"testing">>) THEN "Include testing strategy"
    ELSE "Review and enhance"

\* the recommendation of a failed item
item_recommendation(item_text) ==
    IF occurs(item_text, <<"clear">>) THEN "Add more specific"
    ELSE IF occurs(item_text, <<"goal">>) THEN "Define clear goals"
    ELSE IF occurs(item_text, <<"requirement">>) THEN "Add requirements"
    ELSE IF occurs(item_text, <<"testing">>) THEN "Include testing strategy"
    ELSE "Review and enhance"

\* what _evaluate_checklist_item counts: the relevant rules and those that pass
rule_counts(item, doc) ==
    LET item_text == lowered(item.text)
        relevant_rules ==
            SelectSeq(RuleKeywords, LAMBDA k : occurs(item_text, <<k>>))
    IN [total_rules |-> Len(relevant_rules),
        pass_count |-> Cardinality({ i \in 1..Len(relevant_rules) :
                                       rule(relevant_rules[i], doc) })]

\* a general content check that 100 characters meet
has_substantial_content_from_100(length) == length >= 100

\* len(document_content) > 100: the general content check
has_substantial_content(length) == length > 100

\* the status _evaluate_checklist_item settles on for an item with text
\* item_text (lowered) and rule counts n, on the document with text doc_lower
item_status(item_text, doc_lower, length, n, mode) ==
    IF not_applicable(item_text, doc_lower) THEN "na"
    ELSE IF n.total_rules > 0
    THEN IF passes(n.pass_count, n.total_rules, mode) THEN "pass" ELSE "fail"
    ELSE IF has_substantial_content(length) THEN "pass" ELSE "fail"

\* ChecklistItemResult(text=item.text, status=status, recommendation=...)
item_result(item, status) ==
    [text |-> item.text,
     status |-> status,
     recommendation |->
        IF status = "fail" THEN item_recommendation(lowered(item.text))
        ELSE ""]

\* _evaluate_checklist_item(item, document_content, context, mode)
evaluate_checklist_item(item, doc, mode) ==
    item_result(item,
                item_status(lowered(item.text), lowered(doc.text), doc.length,
                            rule_counts(item, doc), mode))

(* ----------------------- checklists/loader.py: execution --------------- *)
\* how many of the item results have one of the statuses
with_status(items, statuses) ==
    Cardinality({ i \in 1..Len(items) : items[i].status \in statuses })

\* the ChecklistSectionResult of a section with the item results items
counted_section(section, items) ==
    [title |-> section.title,
     total |-> Len(section.items),
     passed |-> with_status(items, {"pass"}),
     failed |-> with_status(items, {"fail"}),
     na |-> Len(items) - with_status(items, {"pass", "fail"}),
     items |-> items]

\* the ChecklistSectionResult execute_checklist builds for a section
section_result(section, doc, mode) ==
    counted_section(section,
                    [i \in 1..Len(section.items) |->
                        evaluate_checklist_item(section.items[i], doc, mode)])

\* the failed_items_details entries of a section, in the order of its items
failed_details(section, section_res) ==
    LET failed == SelectSeq([i \in 1..Len(section.items) |-> i],
                            LAMBDA i : section_res.items[i].status = "fail")
    IN [k \in 1..Len(failed) |->
          [category |-> section.title,
           description |-> section.items[failed[k]].text,
           recommendation |-> section_res.items[failed[k]].recommendation]]

RECURSIVE sum(_, _)
\* the running total of field f over the section results
sum(section_results, f) ==
    IF section_results = << >> THEN 0
    ELSE section_results[1][f] + sum(Tail(section_results), f)

RECURSIVE concat(_)
concat(seqs) == IF seqs = << >> THEN << >> ELSE seqs[1] \o concat(Tail(seqs))

\* of the categories with the most failed items, the one that failed last
worst_category_last(details) ==
    LET failures(c) ==
            Cardinality({ i \in 1..Len(details) : details[i].category = c })
        cats == { details[i].category : i \in 1..Len(details) }
        last == details[Len(details)].category
        worst == CHOOSE c \in cats :
                    /\ \A d \in cats : failures(c) >= failures(d)
                    /\ failures(last) = failures(c) => c = last
    IN <<worst, failures(worst)>>

\* the category with the most failed items, the first of them in the order
\* in which the categories first failed: max(failed_categories.items(), ...)
worst_category(details) ==
    LET failures(c) ==
            Cardinality({ i \in 1..Len(details) : details[i].category = c })
        first(c) == CHOOSE i \in 1..Len(details) :
                       /\ details[i].category = c
                       /\ \A j \in 1..(i - 1) : details[j].category # c
        cats == { details[i].category : i \in 1..Len(details) }
        worst == CHOOSE c \in cats :
                    \A d \in cats :
                        \/ failures(c) > failures(d)
                        \/ failures(c) = failures(d) /\ first(c) <= first(d)
    IN <<worst, failures(worst)>>

\* recommendations from the pass rate among the items that are not na
generate_recommendations_applicable(result, mode) ==
    LET applicable == result.passed_items + result.failed_items
        rated ==
            IF applicable = 0 \/ result.passed_items * 100 >= applicable * 85
            THEN << >>
            ELSE IF result.passed_items * 100 >= applicable * 70
            THEN << <<"good but could benefit">> >>
            ELSE << <<"requires significant improvement">>,
                    <<"address failed items systematically">> >>
    IN IF result.failed_items_details = << >> THEN rated
       ELSE Append(rated,
                <<"pay special attention">>
                    \o worst_category(result.failed_items_details))

\* _generate_recommendations(result, mode)
generate_recommendations(result, mode) ==
    LET rated ==
            IF result.total_items > 0
               /\ result.passed_items * 100 >= result.total_items * 85
            THEN << >>
            ELSE IF result.total_items > 0
                    /\ result.passed_items * 100 >= result.total_items * 70
            THEN << <<"good but could benefit">> >>
            ELSE << <<"requires significant improvement">>,
                    <<"address failed items systematically">> >>
    IN IF result.failed_items_details = << >> THEN rated
       ELSE Append(rated,
                <<"pay special attention">>
                    \o worst_category(result.failed_items_details))

\* the ChecklistExecutionResult after the loop over the sections
counted_result(checklist, section_results) ==
    [checklist_name |-> checklist.name,
     total_items |-> checklist.total_items,
     passed_items |-> sum(section_results, "passed"),
     failed_items |-> sum(section_results, "failed"),
     na_items |-> sum(section_results, "na"),
     section_results |-> section_results,
     failed_items_details |->
        concat([i \in 1..Len(checklist.sections) |->
                  failed_details(checklist.sections[i], section_results[i])])]

\* result.recommendations = _generate_recommendations(result, validation_mode)
with_recommendations(result, mode) ==
    result @@ [recommendations |-> generate_recommendations(result, mode)]

\* execute_checklist(checklist, document_content, context, mode) for a mode
\* that ValidationMode(mode) accepts
execution_result(checklist, doc, mode) ==
    with_recommendations(
        counted_result(checklist,
                       [i \in 1..Len(checklist.sections) |->
                           section_result(checklist.sections[i], doc, mode)]),
        mode)

(* ----------------------- checklists/loader.py: loader ------------------ *)
MaxChecklistCalls == 3

ChecklistNames == {"pm_checklist", "story_checklist"}

\* words with a blank between them
spaced(words) ==
    [i \in 1..(2 * Len(words) - 1) |->
        IF i % 2 = 1 THEN words[(i + 1) \div 2] ELSE " "]

TenKeywords ==
    <<"clear", "goal", "requirement", "user", "story", "acceptance", "epic",
      "architecture", "technical", "testing">>

\* the checklist documents in CHECKLIST_DIR
PmSource ==
    <<"#", " ", "PM", "\n", "\n">>
    \o <<"#", "#", " ", "Planning", "\n">>
    \o <<"Plan", " ", "well", "\n">>
    \o ItemMark \o <<" ", "Clear", " ", "goal", "\n">>
    \o <<" ">> \o ItemMark \o <<" ">> \o spaced(TenKeywords) \o <<" ", "\n">>
    \o <<"#", "#", " ", "Extras", " ", "#", "\n">>
    \o ItemMark \o <<" ", "security", " ", "if", " ", "applicable", "\n">>
    \o ItemMark \o <<" ", "define", " ", "scope", "\n">>
    \o <<"#", "#", "#", " ", "note", "\n">>
    \o <<"-", " ", "[", "x", "]", " ", "done">>

StorySource ==
    ItemMark \o <<" ", "orphan", " ", "goal", "\n">>
    \o <<"#", "#", " ", "Only", "\n">>
    \o ItemMark \o <<" ", "user", " ", "story">>

ChecklistSources ==
    { [kind |-> "text", text |-> PmSource],
      [kind |-> "text", text |-> StorySource] }

\* the documents callers validate: the words in them, and their length
Documents ==
    { [text |-> spaced(<<"clearly", "Goal", "must", "user", "story",
                          "criteria", "epic", "architecture", "tech", "test",
                          "security">>),
       length |-> 2500],
      [text |-> spaced(<<"Goal", "must", "user", "story", "criteria",
                          "epic", "architecture">>),
       length |-> 1500],
      [text |-> spaced(<<"clearly", "Goal", "must", "user", "story",
                          "criteria">>),
       length |-> 1500],
      [text |-> spaced(<<"specific", "goals", "shall", "user", "story">>),
       length |-> 500],
      [text |-> spaced(<<"build", "goal", "should", "user">>),
       length |-> 500],
      [text |-> << >>, length |-> 0] }

\* the mode strings callers pass
ModeArguments == ValidationModes \cup {"Strict"}

NoResult == [op |-> "none", outcome |-> "none"]

\* the loader module when the process starts, with directory in CHECKLIST_DIR
loader_start(directory) ==
    [loaded |-> TRUE,
     dir |-> directory,
     cache |-> [n \in ChecklistNames |-> 0],
     objects |-> << >>,
     held |-> {},
     changed |-> {},
     first |-> [n \in ChecklistNames |-> << >>],
     parses |-> [n \in ChecklistNames |-> 0],
     result |-> NoResult,
     calls |-> 0]

store_vars ==
    <<pc, frame, out, lockHolder, waiters, dirs, meta, files, clock, calls,
      hist>>

InitChecklists ==
    /\ pc = [t \in Tasks |-> "idle"]
    /\ frame = [t \in Tasks |-> NoFrame]
    /\ out = [t \in Tasks |-> NoOut]
    /\ lockHolder = NoTask
    /\ waiters = << >>
    /\ dirs = {}
    /\ meta = NoFile
    /\ files = [p \in Paths |-> NoFile]
    /\ clock = 1
    /\ calls = 0
    /\ hist = [c \in CountedCategories |->
                 [initial |-> 0, written |-> 0, unlinked |-> 0]]
    /\ \E directory \in [ChecklistNames -> ChecklistSources \cup {NoFile}] :
          checklists = loader_start(directory)

\* a call on the loader, or a change of CHECKLIST_DIR, can happen
can_load == checklists.calls < MaxChecklistCalls

\* Checklist(**_checklist_cache[checklist_name]) returning the cached dict
\* itself: [objects, ref]
checklist_of_cache_shared(c, checklist_name) ==
    [objects |-> c.objects, ref |-> c.cache[checklist_name]]

\* Checklist(**_checklist_cache[checklist_name]): validation builds a new
\* Checklist with new sections and items from the dict: [objects, ref]
checklist_of_cache(c, checklist_name) ==
    [objects |-> Append(c.objects, c.objects[c.cache[checklist_name]]),
     ref |-> Len(c.objects) + 1]

\* a lookup in the cache that also wants the document to be there
in_cache_with_source(c, checklist_name) ==
    c.cache[checklist_name] # 0 /\ c.dir[checklist_name].kind # "absent"

\* checklist_name in _checklist_cache
in_cache(c, checklist_name) == c.cache[checklist_name] # 0

\* load_checklist(checklist_name)
load_checklist(checklist_name) ==
    LET c == checklists
        called == [c EXCEPT !.calls = @ + 1]
        hit == checklist_of_cache(c, checklist_name)
        parsed == parse_checklist_content(c.dir[checklist_name].text,
                                          checklist_name)
    IN /\ can_load
       /\ checklists' =
            IF in_cache(c, checklist_name)
            THEN [called EXCEPT
                    !.objects = hit.objects,
                    !.held = @ \cup {hit.ref},
                    !.result = [op |-> "load_checklist", outcome |-> "ok",
                                name |-> checklist_name, ref |-> hit.ref,
                                call |-> c.calls + 1]]
            ELSE IF c.dir[checklist_name].kind = "absent"
            THEN [called EXCEPT
                    !.result = [op |-> "load_checklist", outcome |-> "raise",
                                error |-> "FileNotFoundError",
                                name |-> checklist_name,
                                call |-> c.calls + 1]]
            ELSE [called EXCEPT
                    !.objects = c.objects \o <<parsed, parsed>>,
                    !.cache[checklist_name] = Len(c.objects) + 2,
                    !.held = @ \cup {Len(c.objects) + 1},
                    !.first[checklist_name] = <<parsed>>,
                    !.parses[checklist_name] = @ + 1,
                    !.result = [op |-> "load_checklist", outcome |-> "ok",
                                name |-> checklist_name,
                                ref |-> Len(c.objects) + 1,
                                call |-> c.calls + 1]]
       /\ UNCHANGED store_vars

\* the checklist document of a name is written, replaced or removed
change_source(checklist_name, source) ==
    /\ can_load
    /\ checklists.dir[checklist_name] # source
    /\ checklists' = [checklists EXCEPT !.calls = @ + 1,
                                        !.dir[checklist_name] = source]
    /\ UNCHANGED store_vars

\* a caller changes a Checklist that load_checklist returned to it
change_checklist(ref) ==
    /\ can_load
    /\ ref \in checklists.held
    /\ checklists' = [checklists EXCEPT
                        !.calls = @ + 1,
                        !.objects[ref] = [@ EXCEPT !.sections = << >>,
                                                   !.total_items = 7],
                        !.changed = @ \cup {ref}]
    /\ UNCHANGED store_vars

\* a ValidationMode(mode) that takes every string
is_validation_mode_any(mode) == TRUE

\* ValidationMode(mode) finds a member with this value
is_validation_mode(mode) == mode \in ValidationModes

\* what a call of execute_checklist that returns value leaves
returned(ref, doc, mode, checklist, value) ==
    [op |-> "execute_checklist", outcome |-> "ok",
     ref |-> ref, doc |-> doc, mode |-> mode,
     checklist |-> checklist,
     evaluated |-> Len(concat([i \in 1..Len(value.section_results) |->
                                 value.section_results[i].items])),
     value |-> value]

\* execute_checklist(checklist, document_content, None, mode)
execute_checklist(ref, doc, mode) ==
    /\ can_load
    /\ ref \in checklists.held
    /\ checklists' =
         [checklists EXCEPT
            !.calls = @ + 1,
            !.result =
               IF is_validation_mode(mode)
               THEN returned(ref, doc, mode, checklists.objects[ref],
                             execution_result(checklists.objects[ref],
                                              doc, mode))
               ELSE [op |-> "execute_checklist", outcome |-> "raise",
                     error |-> "ValueError",
                     ref |-> ref, doc |-> doc, mode |-> mode,
                     evaluated |-> 0]]
    /\ UNCHANGED store_vars

NextChecklists ==
    \/ \E checklist_name \in ChecklistNames : load_checklist(checklist_name)
    \/ \E checklist_name \in ChecklistNames,
          source \in ChecklistSources \cup {NoFile} :
          change_source(checklist_name, source)
    \/ \E ref \in 1..(2 * MaxChecklistCalls) : change_checklist(ref)
    \/ \E ref \in 1..(2 * MaxChecklistCalls), doc \in Documents,
          mode \in ModeArguments : execute_checklist(ref, doc, mode)

SpecChecklists == InitChecklists /\ [][NextChecklists]_vars

(* ------------------ checklists/loader.py: example checklists ------------ *)
\* "## title\n"
heading_line(title) == <<"#", "#", " ", title, "\n">>

\* "- [ ] words\n"
item_line(words) == ItemMark \o <<" ">> \o spaced(words) \o <<"\n">>

\* pm_checklist.md of the tests
PmChecklistMd ==
    <<"#", " ", "PM", " ", "Checklist", "\n", "\n">>
    \o <<"#", "#", " ", "Planning", "\n">>
    \o ItemMark \o <<" ", "Define", " ", "project", " ", "scope">>

\* items and no heading
NoHeadingMd == item_line(<<"goal">>) \o item_line(<<"user", "story">>)

\* items that are optional
OptionalMd ==
    heading_line("Extras")
    \o item_line(<<"Optional", "api", "notes">>)
    \o item_line(<<"security", "if", "needed">>)

\* three sections of one, three and three one-rule items
SevenItemsMd ==
    heading_line("A") \o item_line(<<"goal">>)
    \o heading_line("B") \o item_line(<<"user">>) \o item_line(<<"story">>)
    \o item_line(<<"epic">>)
    \o heading_line("C") \o item_line(<<"architecture">>)
    \o item_line(<<"security">>) \o item_line(<<"testing">>)

\* headings of several levels, a heading without a blank, an empty section,
\* an indented item, a title used twice
HeadingsMd ==
    item_line(<<"before">>)
    \o <<"#", "#", "A", "\n">>
    \o heading_line("B")
    \o <<"#", "#", "#", " ", "sub", "\n">>
    \o item_line(<<"one">>)
    \o <<" ", " ">> \o item_line(<<"two">>)
    \o <<"#", "#", "#", "#", " ", "deep", "\n">>
    \o <<"-", " ", "[", "x", "]", " ", "done", "\n">>
    \o item_line(<<"requirement", "testing">>)
    \o <<"#", "#", " ", "A">>

ExampleSources ==
    { [kind |-> "text", text |-> md] :
        md \in {PmChecklistMd, PmSource, StorySource, NoHeadingMd, OptionalMd,
                SevenItemsMd, HeadingsMd, << >>} }

\* documents of 50, 100 and 101 characters with none of the words looked for,
\* and documents with some of the seven words
ExampleDocuments ==
    { [text |-> << >>, length |-> n] : n \in {50, 100, 101} }
    \cup
    { [text |-> spaced(words), length |-> 500] :
        words \in
          { <<"goal", "user", "story", "epic", "architecture", "security",
              "test">>,
            <<"goal", "user", "story", "epic", "architecture", "security">>,
            <<"goal", "user", "epic", "architecture", "security">>,
            <<"goal", "user", "epic", "architecture">>,
            <<"goal", "epic", "architecture">>,
            <<"api">> } }

InitExamples ==
    /\ pc = [t \in Tasks |-> "idle"]
    /\ frame = [t \in Tasks |-> NoFrame]
    /\ out = [t \in Tasks |-> NoOut]
    /\ lockHolder = NoTask
    /\ waiters = << >>
    /\ dirs = {}
    /\ meta = NoFile
    /\ files = [p \in Paths |-> NoFile]
    /\ clock = 1
    /\ calls = 0
    /\ hist = [c \in CountedCategories |->
                 [initial |-> 0, written |-> 0, unlinked |-> 0]]
    /\ \E source \in ExampleSources :
          checklists = loader_start([n \in ChecklistNames |->
                                        IF n = "pm_checklist" THEN source
                                        ELSE NoFile])

NextExamples ==
    \/ \E checklist_name \in ChecklistNames : load_checklist(checklist_name)
    \/ \E ref \in 1..(2 * MaxChecklistCalls), doc \in ExampleDocuments,
          mode \in ModeArguments : execute_checklist(ref, doc, mode)

SpecExamples == InitExamples /\ [][NextExamples]_vars

(* ======================================================================= *)
(* The claims                                                              *)
(* ======================================================================= *)

\* C1: mutations of ProjectMeta do not interleave their read-modify-write, so
\* no update is lost: a serial run of update_project_phase calls never removes
\* a phase_<p>_started_at key, hence every update_project_phase(p) that has
\* returned has its key in project_meta.json (whenever the file is whole).
C1_NoLostUpdate ==
    \A t \in Callers :
        ( /\ out[t].op = "update_project_phase"
          /\ out[t].outcome = "ok"
          /\ meta.kind = "json" )
        => out[t].phase \in DOMAIN meta.data.phase_started_at

\* a task waits in acquire() for the lock that it holds itself: only the
\* holder releases an asyncio.Lock, so this wait never ends
waits_for_itself(t) == lockHolder = t /\ ~granted(t)

\* C2: no store operation blocks indefinitely; in particular none waits
\* for the store's lock while it already holds that lock.
C2_NoCallBlocksForever == \A t \in Tasks : ~waits_for_itself(t)

\* no call is running or can run any further: every task is idle, or waits
\* for a lock whose holder waits for itself
Quiet ==
    \A t \in Tasks :
        \/ pc[t] = "idle"
        \/ /\ lockHolder # NoTask /\ waits_for_itself(lockHolder)
           /\ \E i \in 1..Len(waiters) : waiters[i] = t

\* C3: the stories counter is its value at construction plus the content
\* writes of save_artifact minus the unlinks of delete_artifact under
\* "stories", once the calls have run.
C3_CounterInvariant ==
    (Quiet /\ meta.kind = "json")
    => meta.data.artifact_count["stories"]
         = hist["stories"].initial + hist["stories"].written
             - hist["stories"].unlinked

\* C4: when save_artifact or delete_artifact on a counted category has
\* finished, by returning or by raising, the file change and the counter
\* change have both happened or neither has.
C4_NoPartialMutation ==
    \A t \in Callers :
        ( /\ out[t].op \in {"save_artifact", "delete_artifact"}
          /\ out[t].outcome \in {"ok", "raise"}
          /\ artifact_type(out[t].path) \in CountedCategories )
        => (out[t].fileDone <=> out[t].countDone)

\* the task __init__ created has run as far as it ever will
InitSettled == pc[InitTask] = "idle" \/ waits_for_itself(InitTask)

\* C5: the initialization that construction schedules completes: once its
\* task has run as far as it goes, the category directories and
\* project_meta.json exist, so that get_project_meta succeeds.
C5_InitializationCompletes ==
    InitSettled => (Directories \subseteq dirs /\ meta.kind # "absent")

\* t took a step of an _ensure_structure run
EnsureStep(t) ==
    /\ pc'[t] # pc[t] \/ frame'[t] # frame[t] \/ out'[t] # out[t]
    /\ \/ pc[t] \in {"es_start", "es_wait"}
       \/ frame[t].op = "ensure_structure"
       \/ pc[t] = "idle" /\ pc'[t] # "idle"
          /\ frame'[t].op = "ensure_structure"
       \/ pc[t] = "idle" /\ pc'[t] = "idle"
          /\ out'[t].op = "ensure_structure"

C6_State ==
    /\ \A t \in Tasks :
          (frame[t].ctx = "init" /\ pc[t] = "sj_wait") => meta.kind = "absent"
    /\ Cardinality({ t \in Tasks : frame[t].ctx = "init" }) <= 1
    /\ \A t \in Tasks :
          (out[t].op = "ensure_structure" \/ frame[t].ctx = "init")
          => Directories \subseteq dirs

C6_Step ==
    \A t \in Tasks :
        EnsureStep(t) =>
            /\ meta.kind # "absent" => meta' = meta
            /\ Directories \subseteq dirs => dirs' = dirs

\* C6: ensure_structure is idempotent, also when runs race: a run leaves the
\* fixed directory set (a second run adds none), ProjectMeta is initialized
\* by at most one run and only when project_meta.json is absent, and a run
\* leaves an existing project_meta.json as it is.
C6_EnsureStructureIdempotent == [](C6_State) /\ [][C6_Step]_vars

\* a second run, by a caller after the task of __init__, has completed on a
\* ProjectMeta that is no longer the initial one
C6_Witness ==
    /\ out[InitTask].op = "ensure_structure" /\ out[InitTask].outcome = "ok"
    /\ \E t \in Callers :
          out[t].op = "ensure_structure" /\ out[t].outcome = "ok"
    /\ meta.kind = "json"
    /\ meta.data.current_phase # "initialization"
    /\ meta.data.artifact_count["stories"] > 0

\* C7: a phase_<p>_started_at key that is in project_meta.json keeps its
\* value: a later update_project_phase(p) does not overwrite the timestamp of
\* the first one.  (Of a file being rewritten, meta holds the content before.)
C7_PhaseStartKept ==
    [][ (meta.kind # "absent" /\ meta'.kind = "json")
        => \A p \in (DOMAIN meta.data.phase_started_at)
                      \cap (DOMAIN meta'.data.phase_started_at) :
              meta'.data.phase_started_at[p] = meta.data.phase_started_at[p]
      ]_vars

C8_Step ==
    \A t \in Callers :
        (pc[t] = "sj_write" /\ frame[t].ctx = "upp" /\ pc'[t] = "idle")
        => /\ out'[t].outcome = "ok"
           /\ meta'.kind = "json"
           /\ meta'.data.current_phase = frame[t].phase
           /\ frame[t].phase \in DOMAIN meta'.data.phase_started_at
           /\ meta'.data.artifact_count = frame[t].pre.data.artifact_count

\* C8: when update_project_phase(p) returns, project_meta.json has
\* current_phase = p and the key phase_<p>_started_at, and the artifact
\* counters it had when the call was made.
C8_PhaseUpdated == [][C8_Step]_vars

\* update_project_phase has returned on a ProjectMeta with a counter above 0
C8_Witness ==
    \E t \in Callers :
        /\ out[t].op = "update_project_phase" /\ out[t].outcome = "ok"
        /\ meta.kind = "json"
        /\ meta.data.current_phase = out[t].phase
        /\ meta.data.artifact_count["stories"] > 0

\* C9: load_artifact of a document (.md) that save_artifact(path, content,
\* metadata) wrote returns content unchanged, and a metadata map with every
\* given key at its given value (updated_at refreshed) plus created_at and
\* updated_at.
C9_RoundTrip ==
    \A t \in Callers :
        ( /\ out[t].op = "load_artifact" /\ out[t].outcome = "ok"
          /\ is_markdown(out[t].path)
          /\ out[t].src.complete )
        => /\ out[t].loaded.content = out[t].src.content
           /\ \A k \in Keys(out[t].src.given) :
                 /\ k \in Keys(out[t].loaded.metadata)
                 /\ k # "updated_at" =>
                      Get(out[t].loaded.metadata, k) = Get(out[t].src.given, k)
           /\ out[t].src.given # << >> =>
                 {"created_at", "updated_at"}
                     \subseteq Keys(out[t].loaded.metadata)

\* s.endswith(suffix)
endswith(s, suffix) ==
    Len(s) >= Len(suffix)
    /\ SubSeq(s, Len(s) - Len(suffix) + 1, Len(s)) = suffix

\* the file at path holds the content of its last save, updated_at at the
\* time of that save, created_at as given or else that time, and every other
\* given field as given
StoredAsGiven(path) ==
    LET file == files[path]
        md == parse_artifact(path, file.text).metadata
    IN /\ endswith(file.text, file.content)
       /\ {"created_at", "updated_at"} \subseteq Keys(md)
       /\ Get(md, "updated_at") = file.at
       /\ Get(md, "created_at") =
             IF "created_at" \in Keys(file.given)
             THEN Get(file.given, "created_at") ELSE file.at
       /\ \A k \in Keys(file.given) \ {"updated_at"} :
             k \in Keys(md) /\ Get(md, k) = Get(file.given, k)

\* C10 as claimed, for every path: each save with metadata overwrites the
\* content, refreshes updated_at, sets created_at only when not supplied and
\* stores the other supplied fields unchanged.
C10_EverySaveStoresMetadata ==
    \A path \in Paths :
        (files[path].kind = "text" /\ files[path].complete
         /\ files[path].given # << >>)
        => StoredAsGiven(path)

\* C10, amended: the same for the paths that end in .md.
C10_MarkdownSaveStoresMetadata ==
    \A path \in Paths :
        (files[path].kind = "text" /\ files[path].complete
         /\ has_frontmatter(path, files[path].given))
        => StoredAsGiven(path)

\* both callers saved the same document, the later save with a created_at
\* and an updated_at of the caller: the file holds the content of that save
C10_Witness ==
    /\ \A t \in Callers :
          /\ out[t].op = "save_artifact" /\ out[t].outcome = "ok"
          /\ out[t].path = TestMd
    /\ files[TestMd].kind = "text" /\ files[TestMd].complete
    /\ files[TestMd].at = isoformat(2)
    /\ "updated_at" \in Keys(files[TestMd].given)
    /\ StoredAsGiven(TestMd)

\* C11: delete_artifact never raises and returns True exactly when it removed
\* the file; a call that removed a file of a counted category does not stay
\* in the call for ever, and has decremented the category's counter (not
\* below 0) when it returns; a call that found no file changed nothing.
C11_DeleteReports ==
    \A t \in Callers :
        /\ (frame[t].op = "delete_artifact" /\ frame[t].fileDone)
              => ~waits_for_itself(t)
        /\ out[t].op = "delete_artifact" =>
              /\ out[t].outcome = "ok"
              /\ out[t].value = "True" <=> out[t].fileDone
              /\ ( /\ out[t].fileDone
                    /\ artifact_type(out[t].path) \in CountedCategories )
                  => out[t].countDone
              /\ ~out[t].fileDone => ~out[t].countDone

\* t took a step of load_artifact that ends the call
LoadEnds(t) ==
    \/ pc[t] = "la_read" /\ pc'[t] = "idle"
    \/ /\ pc[t] = "idle" /\ pc'[t] = "idle" /\ calls' # calls
       /\ out'[t] # out[t] /\ out'[t].op = "load_artifact"

C12_State ==
    \A t \in Callers :
        (out[t].op = "load_artifact" /\ out[t].outcome = "ok")
        => out[t].src.kind # "absent"

C12_Step ==
    \A t \in Callers :
        (LoadEnds(t) /\ files[out'[t].path].kind = "absent")
        => /\ out'[t].outcome = "raise"
           /\ out'[t].error = "FileNotFoundError"
           /\ UNCHANGED <<files, meta, dirs>>

\* C12: load_artifact of a path with no file, at the call or when the file is
\* opened, raises FileNotFoundError to the caller, returns no artifact in its
\* place, and leaves the files and project_meta.json as they are.
C12_LoadNotFound == [](C12_State) /\ [][C12_Step]_vars

\* load_artifact raised for stories/a.md after delete_artifact removed it
C12_Witness ==
    \E t \in Callers :
        /\ out[t].op = "load_artifact" /\ out[t].path = StoryMd
        /\ out[t].outcome = "raise" /\ out[t].error = "FileNotFoundError"
        /\ hist["stories"].unlinked > 0
        /\ files[TestMd].kind = "text"

\* t took a step of list_artifacts that ends the call
ListEnds(t) ==
    \/ pc[t] = "ls_read" /\ pc'[t] = "idle"
    \/ /\ pc[t] = "idle" /\ pc'[t] = "idle" /\ calls' # calls
       /\ out'[t] # out[t] /\ out'[t].op = "list_artifacts"

\* the document at path is in the listing's search directory, loads, and
\* has the status asked for
listable(path, type, status) ==
    /\ in_search_dir(path, type)
    /\ files[path].kind # "absent"
    /\ passes_filter(parse_artifact(path, files[path].text), status)

C13_Step ==
    \A t \in Callers :
        ListEnds(t) =>
            LET a == out'[t].artifacts
                type == out'[t].type
                status == out'[t].status
                at == IF pc[t] = "ls_read" THEN frame[t].filesAt ELSE files
            IN /\ out'[t].outcome = "ok"
               /\ \A i, j \in 1..Len(a) :
                     i < j => ~later(a[j].updated_at, a[i].updated_at)
               /\ (type # "" /\ <<type>> \notin dirs) => a = << >>
               /\ \A i \in 1..Len(a) : in_search_dir(a[i].path, type)
               /\ at = files =>
                     /\ \A i \in 1..Len(a) : listable(a[i].path, type, status)
                     /\ \A path \in Paths :
                           listable(path, type, status) =>
                             Cardinality({ i \in 1..Len(a) :
                               a[i] = artifact_summary(path,
                                   parse_artifact(path, files[path].text)) })
                               = 1
                     /\ Len(a) = Cardinality({ path \in Paths :
                                     listable(path, type, status) })

C14_NoTruncatedRead ==
    \A t \in Callers :
        (out[t].op = "load_artifact" /\ out[t].outcome = "ok")
        => /\ out[t].src.complete
           /\ out[t].src.text =
                 file_content(out[t].path, out[t].src.content,
                              out[t].src.given, out[t].src.at)

(* ---- C15 ---- *)
\* what the parser makes of the checklist documents
parsed_checklists ==
    { parse_checklist_content(src.text, n) :
        src \in ChecklistSources, n \in ChecklistNames }

item_count(checklist) ==
    Len(concat([i \in 1..Len(checklist.sections) |->
                  checklist.sections[i].items]))

executed == checklists.result.op = "execute_checklist"
            /\ checklists.result.outcome = "ok"

\* C15: every checklist the parser produced has total_items equal to the sum
\* of the item counts of its sections, and every execution result produced
\* from such a checklist has passed_items + failed_items + na_items equal to
\* that total_items and, in each section, passed + failed + na equal to the
\* section's total.
C15_TotalsAgree ==
    /\ \A checklist \in parsed_checklists :
          checklist.total_items = item_count(checklist)
    /\ \A ref \in checklists.held \ checklists.changed :
          /\ checklists.objects[ref] \in parsed_checklists
          /\ checklists.objects[ref].total_items
                = item_count(checklists.objects[ref])
    /\ executed /\ checklists.result.checklist \in parsed_checklists =>
          LET r == checklists.result.value
          IN /\ r.total_items = checklists.result.checklist.total_items
             /\ r.passed_items + r.failed_items + r.na_items = r.total_items
             /\ \A i \in 1..Len(r.section_results) :
                   LET q == r.section_results[i]
                   IN /\ q.passed + q.failed + q.na = q.total
                      /\ q.total = Len(q.items)

\* an execution of a parsed checklist of two sections, from a document with an
\* item before its first section or not, with passed, failed and na items
C15_Witness ==
    /\ executed
    /\ checklists.result.checklist \in parsed_checklists
    /\ Len(checklists.result.value.section_results) = 2
    /\ checklists.result.value.passed_items > 0
    /\ checklists.result.value.failed_items > 0
    /\ checklists.result.value.na_items > 0
    /\ \E ref \in checklists.held \ checklists.changed :
          checklists.objects[ref].sections[1].title = <<"Only">>

(* ---- C16 ---- *)
\* the statuses of the items of an execution result, section after section
item_statuses(value) ==
    concat([i \in 1..Len(value.section_results) |->
              [k \in 1..Len(value.section_results[i].items) |->
                  value.section_results[i].items[k].status]])

passed_in(statuses) ==
    Cardinality({ i \in 1..Len(statuses) : statuses[i] = "pass" })

\* from strict over standard to lenient no item stops passing, and the na
\* items are the same
relaxes(strict, standard, lenient) ==
    /\ Len(strict) = Len(standard) /\ Len(standard) = Len(lenient)
    /\ passed_in(strict) <= passed_in(standard)
    /\ passed_in(standard) <= passed_in(lenient)
    /\ \A i \in 1..Len(strict) :
          /\ strict[i] = "pass" => standard[i] = "pass"
          /\ standard[i] = "pass" => lenient[i] = "pass"
          /\ (strict[i] = "na") = (standard[i] = "na")
          /\ (standard[i] = "na") = (lenient[i] = "na")

\* the statuses of the three modes for the checklist and document of the
\* last execution
last_statuses(mode) ==
    item_statuses(execution_result(checklists.result.checklist,
                                   checklists.result.doc, mode))

\* C16: for the checklist and the document of every execution, the result
\* returned is the one of its mode, and over the three modes the number of
\* passed items under strict is at most that under standard, which is at most
\* that under lenient; an item that passes in a stricter mode passes in every
\* more lenient one, and the na items are the same in all three modes.
C16_MonotonicRelaxation ==
    executed =>
       /\ item_statuses(checklists.result.value)
             = last_statuses(checklists.result.mode)
       /\ passed_in(item_statuses(checklists.result.value))
             = checklists.result.value.passed_items
       /\ relaxes(last_statuses("strict"), last_statuses("standard"),
                  last_statuses("lenient"))

\* an execution for which each relaxation of the mode lets one more item
\* pass, with an na item
C16_Witness ==
    /\ executed
    /\ passed_in(last_statuses("strict")) < passed_in(last_statuses("standard"))
    /\ passed_in(last_statuses("standard")) < passed_in(last_statuses("lenient"))
    /\ \E i \in 1..Len(last_statuses("strict")) : last_statuses("strict")[i] = "na"

(* ---- C17 ---- *)
\* C17: execute_checklist with a mode other than strict, standard and lenient
\* raises ValueError, for every checklist and document, with no item
\* evaluated and no execution result returned; with one of the three modes it
\* returns a result.
C17_InvalidModeRejected ==
    checklists.loaded /\ checklists.result.op = "execute_checklist" =>
       IF checklists.result.mode \in {"strict", "standard", "lenient"}
       THEN checklists.result.outcome = "ok"
       ELSE /\ checklists.result.outcome = "raise"
            /\ checklists.result.error = "ValueError"
            /\ checklists.result.evaluated = 0
            /\ "value" \notin DOMAIN checklists.result

\* an execution with the mode "Strict" of a checklist that has items
C17_Witness ==
    /\ checklists.loaded
    /\ checklists.result.op = "execute_checklist"
    /\ checklists.result.mode = "Strict"
    /\ checklists.result.outcome = "raise"
    /\ checklists.objects[checklists.result.ref].total_items > 0

(* ---- C18 ---- *)
\* the step is a call of load_checklist
loads ==
    /\ checklists.loaded
    /\ checklists'.result.op = "load_checklist"
    /\ checklists'.calls = checklists.calls + 1
    /\ checklists'.result.call = checklists'.calls

not_found ==
    /\ checklists'.result.outcome = "raise"
    /\ checklists'.result.error = "FileNotFoundError"

no_source(checklist_name) == checklists.dir[checklist_name].kind = "absent"

C18_Step ==
    loads =>
       /\ not_found <=> /\ no_source(checklists'.result.name)
                        /\ checklists.cache[checklists'.result.name] = 0
       /\ ~not_found => checklists'.result.outcome = "ok"
       /\ not_found => checklists'.cache = checklists.cache

\* C18: load_checklist(name) raises FileNotFoundError exactly when, at the
\* time of the call, no document of that name is in CHECKLIST_DIR and the name
\* is not in the cache; a load that fails adds no entry to the cache.
C18_NotFoundUnlessCached == [][C18_Step]_vars

C18_StepAsClaimed ==
    loads =>
       /\ no_source(checklists'.result.name) => not_found
       /\ not_found => checklists'.cache = checklists.cache

\* C18 as stated: load_checklist(name) raises FileNotFoundError whenever no
\* document of that name is in CHECKLIST_DIR at the time of the call, and a
\* load that fails adds no entry to the cache.
C18_NotFoundWheneverNoSource == [][C18_StepAsClaimed]_vars

\* a load that failed for want of a document, in a process whose cache holds
\* another name
C18_Witness ==
    /\ checklists.loaded
    /\ checklists.result.op = "load_checklist"
    /\ checklists.result.outcome = "raise"
    /\ checklists.result.call = checklists.calls
    /\ no_source(checklists.result.name)
    /\ checklists.cache[checklists.result.name] = 0
    /\ \E n \in ChecklistNames : checklists.cache[n] # 0

(* ---- C19 ---- *)
\* the step leaves what the cache holds as it is, and may add names
cache_kept ==
    \A n \in ChecklistNames :
        checklists.cache[n] # 0 =>
           /\ checklists'.cache[n] = checklists.cache[n]
           /\ checklists'.objects[checklists.cache[n]]
                 = checklists.objects[checklists.cache[n]]

\* the step is a load of a name that a load before it returned
loads_again ==
    /\ loads
    /\ checklists.first[checklists'.result.name] # << >>

C19_Step ==
    /\ checklists.loaded => cache_kept
    /\ loads_again =>
          /\ checklists'.result.outcome = "ok"
          /\ checklists'.objects[checklists'.result.ref]
                = checklists.first[checklists'.result.name][1]
          /\ checklists'.parses = checklists.parses
          /\ checklists'.first = checklists.first

C19_State ==
    checklists.loaded =>
       \A n \in ChecklistNames :
          /\ checklists.parses[n] <= 1
          /\ checklists.parses[n] = 1 <=> checklists.first[n] # << >>
          /\ checklists.first[n] # << >> =>
                /\ checklists.cache[n] # 0
                /\ checklists.objects[checklists.cache[n]]
                      = checklists.first[n][1]

\* C19: once load_checklist(name) has returned, every later
\* load_checklist(name) returns a checklist equal to the first one and parses
\* nothing, whether the document was changed or removed and whatever callers
\* did to the checklists returned before; no step removes or changes what the
\* cache holds for a name.
C19_CachedForProcessLifetime == [](C19_State) /\ [][C19_Step]_vars

\* a load answered from the cache after the caller changed the checklist the
\* first load returned
C19_Witness ==
    /\ checklists.loaded
    /\ checklists.result.op = "load_checklist"
    /\ checklists.result.outcome = "ok"
    /\ checklists.result.call = checklists.calls
    /\ checklists.result.ref > 2
    /\ checklists.changed # {}
    /\ \E ref \in checklists.changed :
          /\ checklists.objects[ref].name = checklists.result.name
          /\ checklists.objects[ref]
                # checklists.first[checklists.result.name][1]
    /\ checklists.objects[checklists.result.ref]
          = checklists.first[checklists.result.name][1]

(* ---- C20 ---- *)
\* the share of passed rules that the mode asks for is met
share_met(pass_count, total_rules, mode) ==
    CASE mode = "strict" -> pass_count = total_rules
      [] mode = "standard" -> pass_count * 100 >= 70 * total_rules
      [] mode = "lenient" -> pass_count * 100 >= 50 * total_rules

\* item k of section i in the last execution: its status is the one the
\* share of its passed rules gives
by_share(i, k) ==
    LET item == checklists.result.checklist.sections[i].items[k]
        status == checklists.result.value.section_results[i].items[k].status
        n == rule_counts(item, checklists.result.doc)
    IN n.total_rules >= 1 /\ status # "na" =>
          /\ status \in {"pass", "fail"}
          /\ status = "pass" <=>
                share_met(n.pass_count, n.total_rules, checklists.result.mode)

\* C20: in every execution, an item with at least one relevant rule that is
\* not na has status pass exactly when the rules that pass are all of the
\* relevant rules in strict mode, at least 70% of them in standard mode, at
\* least 50% of them in lenient mode; otherwise its status is fail.
C20_PassByShare ==
    executed =>
       \A i \in 1..Len(checklists.result.checklist.sections) :
          \A k \in 1..Len(checklists.result.checklist.sections[i].items) :
             by_share(i, k)

\* an execution in standard mode in which an item passes with seven of its
\* ten relevant rules
C20_Witness ==
    /\ executed
    /\ checklists.result.mode = "standard"
    /\ \E i \in 1..Len(checklists.result.checklist.sections) :
          \E k \in 1..Len(checklists.result.checklist.sections[i].items) :
             LET item == checklists.result.checklist.sections[i].items[k]
                 n == rule_counts(item, checklists.result.doc)
                 status ==
                     checklists.result.value.section_results[i].items[k].status
             IN /\ n.total_rules = 10
                /\ n.pass_count = 7
                /\ status = "pass"

(* ---- C21 ---- *)
\* no key of evaluation_rules occurs in the lower-cased text of the item
no_keyword(item) ==
    \A i \in 1..Len(RuleKeywords) :
        ~occurs(lowered(item.text), <<RuleKeywords[i]>>)

\* the items of the last execution, as <<section, item>> indices
executed_items ==
    { <<i, k>> \in (1..7) \X (1..7) :
        /\ i <= Len(checklists.result.checklist.sections)
        /\ k <= Len(checklists.result.checklist.sections[i].items) }

executed_item(ik) ==
    checklists.result.checklist.sections[ik[1]].items[ik[2]]

executed_status(ik) ==
    checklists.result.value.section_results[ik[1]].items[ik[2]].status

\* C21: in every execution an item whose lower-cased text holds no rule
\* keyword and that is not na passes exactly when the document is longer than
\* 100 characters, whatever the mode; the checklist with the one section
\* "Planning" and the one item "Define project scope", executed on a document
\* of 50 characters, gives failed_items = 1, passed_items = 0 and a
\* recommendation of significant improvement.
C21_DefaultByLength ==
    executed =>
       /\ \A ik \in executed_items :
             no_keyword(executed_item(ik)) /\ executed_status(ik) # "na" =>
                (executed_status(ik) = "pass"
                   <=> checklists.result.doc.length > 100)
       /\ ( /\ checklists.result.checklist
                 = parse_checklist_content(PmChecklistMd, "pm_checklist")
            /\ checklists.result.doc.length = 50 ) =>
             /\ checklists.result.value.failed_items = 1
             /\ checklists.result.value.passed_items = 0
             /\ \E j \in 1..Len(checklists.result.value.recommendations) :
                   checklists.result.value.recommendations[j]
                      = <<"requires significant improvement">>

\* the example: "Define project scope" under "Planning", standard mode, a
\* document of 50 characters
C21_Witness ==
    /\ executed
    /\ checklists.result.mode = "standard"
    /\ checklists.result.doc.length = 50
    /\ Len(checklists.result.checklist.sections) = 1
    /\ checklists.result.checklist.sections[1].title = <<"Planning">>
    /\ Len(checklists.result.checklist.sections[1].items) = 1
    /\ checklists.result.checklist.sections[1].items[1].text
          = <<"Define", " ", "project", " ", "scope">>
    /\ checklists.result.value.failed_items = 1

(* ---- C22 ---- *)
\* the lower-cased text of the item holds an optionality marker
optional_item(item) ==
    \/ occurs(lowered(item.text), <<"if", " ", "applicable">>)
    \/ occurs(lowered(item.text), <<"if", " ", "needed">>)
    \/ occurs(lowered(item.text), <<"optional">>)

\* the lower-cased document holds a domain marker
domain_document(doc) ==
    \/ occurs(lowered(doc.text), <<"ui">>)
    \/ occurs(lowered(doc.text), <<"frontend">>)
    \/ occurs(lowered(doc.text), <<"api">>)
    \/ occurs(lowered(doc.text), <<"database">>)

\* the item is na in the three modes, on the document at any length
na_throughout(item, doc) ==
    \A mode \in {"strict", "standard", "lenient"}, n \in {0, 101, 1001, 2001} :
        LET r == evaluate_checklist_item(item, [doc EXCEPT !.length = n], mode)
        IN r.status = "na" /\ r.recommendation = ""

\* C22: in every execution an item is na exactly when its (lower-cased) text
\* holds one of "if applicable", "if needed", "optional" and the document
\* holds none of "ui", "frontend", "api", "database"; an na item is na in
\* every mode and at every document length, whatever its rules would give.
C22_Applicability ==
    executed =>
       \A ik \in executed_items :
          /\ executed_status(ik) = "na"
                <=> /\ optional_item(executed_item(ik))
                    /\ ~domain_document(checklists.result.doc)
          /\ executed_status(ik) = "na"
                => na_throughout(executed_item(ik), checklists.result.doc)

\* an execution with an na item that has a relevant rule, none of which the
\* document meets
C22_Witness ==
    /\ executed
    /\ \E ik \in executed_items :
          /\ executed_status(ik) = "na"
          /\ rule_counts(executed_item(ik),
                         checklists.result.doc).total_rules = 1
          /\ rule_counts(executed_item(ik),
                         checklists.result.doc).pass_count = 0

(* ---- C23 ---- *)
executed_recommendation(ik) ==
    checklists.result.value.section_results[ik[1]].items[ik[2]].recommendation

\* the remediations, in the order in which their keywords are looked for
Remediations ==
    << <<"clear", "Add more specific">>,
       <<"goal", "Define clear goals">>,
       <<"requirement", "Add requirements">>,
       <<"testing", "Include testing strategy">> >>

\* recommendation is the remediation of the first keyword, in the order of
\* Remediations, that the lower-cased item text holds, or the generic one
first_remediation(item, recommendation) ==
    LET holds(j) == occurs(lowered(item.text), <<Remediations[j][1]>>)
    IN IF \E j \in 1..4 : holds(j)
       THEN \E j \in 1..4 :
               /\ holds(j)
               /\ \A h \in 1..(j - 1) : ~holds(h)
               /\ recommendation = Remediations[j][2]
       ELSE recommendation = "Review and enhance"

\* C23: every item result of every execution has a status among pass, fail
\* and na, and a recommendation that is non-empty exactly when the status is
\* fail; a failed item's recommendation is that of the first of clear, goal,
\* requirement, testing that its text holds, and the generic "review and
\* enhance" one when it holds none.
C23_ItemResult ==
    executed =>
       \A ik \in executed_items :
          /\ executed_status(ik) \in {"pass", "fail", "na"}
          /\ executed_recommendation(ik) # "" <=> executed_status(ik) = "fail"
          /\ executed_status(ik) = "fail" =>
                first_remediation(executed_item(ik),
                                  executed_recommendation(ik))
          /\ checklists.result.value.section_results[ik[1]].items[ik[2]].text
                = executed_item(ik).text

\* an execution in which an item that holds both clear and goal failed, and
\* another item passed
C23_Witness ==
    /\ executed
    /\ \E ik \in executed_items :
          /\ executed_status(ik) = "fail"
          /\ occurs(lowered(executed_item(ik).text), <<"clear">>)
          /\ occurs(lowered(executed_item(ik).text), <<"goal">>)
          /\ executed_recommendation(ik) = "Add more specific"
    /\ \E ik \in executed_items : executed_status(ik) = "pass"

(* ---- C24 ---- *)
\* the failed items of the last execution in the sections with this title
failed_under(title) ==
    Cardinality({ ik \in executed_items :
                    /\ executed_status(ik) = "fail"
                    /\ checklists.result.checklist.sections[ik[1]].title
                          = title })

\* the first section with this title that has a failed item
first_failed(title) ==
    CHOOSE i \in 1..7 :
       /\ \E ik \in executed_items :
             /\ ik[1] = i
             /\ executed_status(ik) = "fail"
             /\ checklists.result.checklist.sections[i].title = title
       /\ \A ik \in executed_items :
             ( /\ executed_status(ik) = "fail"
               /\ checklists.result.checklist.sections[ik[1]].title = title )
             => i <= ik[1]

failed_titles ==
    { checklists.result.checklist.sections[ik[1]].title :
        ik \in { x \in executed_items : executed_status(x) = "fail" } }

\* the title with the most failed items, the first to fail among equals
most_failed(title) ==
    /\ title \in failed_titles
    /\ \A other \in failed_titles :
          \/ failed_under(title) > failed_under(other)
          \/ /\ failed_under(title) = failed_under(other)
             /\ first_failed(title) <= first_failed(other)

\* the messages about the pass rate: passed of total items passed
rate_messages(passed, total) ==
    IF total = 0 \/ passed * 100 < 70 * total
    THEN << <<"requires significant improvement">>,
            <<"address failed items systematically">> >>
    ELSE IF passed * 100 < 85 * total
    THEN << <<"good but could benefit">> >>
    ELSE << >>

C30_PassRateCountsNa ==
    executed =>
       LET r == checklists.result.value
           items == Cardinality(executed_items)
           rated == rate_messages(r.passed_items,
                                  r.passed_items + r.failed_items + r.na_items)
       IN /\ r.passed_items + r.failed_items + r.na_items = items
          /\ r.failed_items = 0 => r.recommendations = rated
          /\ r.failed_items = 0 /\ r.passed_items = 0 =>
                r.recommendations
                   = << <<"requires significant improvement">>,
                        <<"address failed items systematically">> >>

\* an execution of a checklist with items, all of them na
C30_Witness ==
    /\ executed
    /\ checklists.result.value.na_items = 2
    /\ checklists.result.value.total_items = 2
    /\ Len(checklists.result.value.recommendations) = 2

(* ---- C25 ---- *)
\* the lines of a checklist document, stripped
stripped_lines(text) ==
    LET lines == split(text, <<"\n">>, Len(text))
    IN [i \in 1..Len(lines) |-> strip(lines[i])]

\* "## ..." and not "### ..."
is_heading(line) ==
    startswith(line, <<"#", "#">>) /\ ~startswith(line, <<"#", "#", "#">>)

\* "- [ ] ..."
is_item(line) == ~is_heading(line) /\ startswith(line, ItemMark)

\* the numbers of the lines that satisfy Test, in source order
line_numbers(lines, Test(_)) ==
    SelectSeq([i \in 1..Len(lines) |-> i], LAMBDA i : Test(lines[i]))

\* the checklist is the one the document describes: a section for each
\* second-level heading, in order, with the items between it and the next
described_by(checklist, text) ==
    LET lines == stripped_lines(text)
        headings == line_numbers(lines, is_heading)
        until(j) == IF j < Len(headings) THEN headings[j + 1]
                    ELSE Len(lines) + 1
        items(j) == SelectSeq(line_numbers(lines, is_item),
                              LAMBDA i : headings[j] < i /\ i < until(j))
    IN /\ Len(checklist.sections) = Len(headings)
       /\ \A j \in 1..Len(headings) :
             LET section == checklist.sections[j]
             IN /\ section.title = strip(replace(lines[headings[j]], <<"#">>))
                /\ Len(section.items) = Len(items(j))
                /\ \A k \in 1..Len(items(j)) :
                      /\ section.items[k].text
                            = strip(replace(lines[items(j)[k]], ItemMark))
                      /\ section.items[k].category = section.title
                      /\ section.items[k].required

\* the names loaded so far
loaded_names ==
    { n \in ChecklistNames : checklists.loaded /\ checklists.cache[n] # 0 }

orphans(text) ==
    LET lines == stripped_lines(text)
        headings == line_numbers(lines, is_heading)
    IN SelectSeq(line_numbers(lines, is_item),
                 LAMBDA i : headings = << >> \/ i < headings[1])

\* C26: load_checklist does not fail on a document with item lines before
\* its first section heading; these items are in no section and are not
\* counted in total_items, and a document without a second-level heading
\* gives a checklist with no sections and total_items = 0.
C26_OrphanItemsDropped ==
    /\ \A n \in loaded_names :
          LET text == checklists.dir[n].text
              checklist == checklists.first[n][1]
              lines == stripped_lines(text)
          IN /\ checklist.total_items
                   = Len(line_numbers(lines, is_item)) - Len(orphans(text))
             /\ item_count(checklist) = checklist.total_items
             /\ line_numbers(lines, is_heading) = << >> =>
                   checklist.sections = << >> /\ checklist.total_items = 0
    /\ ( /\ checklists.loaded
         /\ checklists.result.op = "load_checklist"
         /\ checklists.dir[checklists.result.name].kind # "absent" )
       => checklists.result.outcome = "ok"

\* a checklist was loaded from a document that has item lines and no heading
C26_Witness ==
    \E n \in loaded_names :
       /\ Len(orphans(checklists.dir[n].text)) = 2
       /\ checklists.first[n][1].sections = << >>
       /\ checklists.first[n][1].total_items = 0

(* ---- C27 ---- *)
\* C27: the category counter counts the saves: once the calls have run, a
\* category from which nothing was deleted has its counter at the value at
\* construction plus the number of save_artifact writes under it, also when
\* they went to one path, so that it can exceed the number of files present.
C27_CounterCountsSaves ==
    (Quiet /\ meta.kind = "json") =>
       \A c \in CountedCategories :
          hist[c].unlinked = 0 =>
             meta.data.artifact_count[c] = hist[c].initial + hist[c].written

(* ---- C28 ---- *)
\* the path has no '/' or its first segment is none of the six categories
uncounted(path) ==
    \/ path.segs = << >>
    \/ path.segs[1] \notin {"prd", "stories", "architecture", "decisions",
                            "ideation", "checklists"}

\* t takes a step of a save_artifact or delete_artifact on the path
changes_artifact(t, path) ==
    /\ pc'[t] # pc[t] \/ frame'[t] # frame[t] \/ out'[t] # out[t]
    /\ \/ /\ frame[t].op \in {"save_artifact", "delete_artifact"}
          /\ frame[t].path = path
       \/ /\ frame'[t].op \in {"save_artifact", "delete_artifact"}
          /\ frame'[t].path = path
       \/ /\ pc[t] = "idle" /\ pc'[t] = "idle"
          /\ out'[t].op \in {"save_artifact", "delete_artifact"}
          /\ out'[t].path = path

C28_Step ==
    \A t \in Callers, path \in Paths :
       uncounted(path) /\ changes_artifact(t, path) =>
          /\ meta' = meta
          /\ \A other \in Paths \ {path} : files'[other] = files[other]

C28_State ==
    \A t \in Callers :
       /\ ( /\ frame[t].op \in {"save_artifact", "delete_artifact"}
            /\ uncounted(frame[t].path) )
          => frame[t].ctx # "uac" /\ ~waits_for_itself(t)
       /\ ( /\ out[t].op \in {"save_artifact", "delete_artifact"}
            /\ uncounted(out[t].path) )
          => out[t].outcome = "ok" /\ ~out[t].countDone

\* C28: a save_artifact or delete_artifact on a path outside the six counted
\* categories, or on a path without '/', changes that artifact file only: no
\* step of the call changes ProjectMeta (its counters, current_phase and
\* updated_at stay as they were), the call never starts to save ProjectMeta,
\* and it returns.
C28_UncountedLeavesMeta == [](C28_State) /\ [][C28_Step]_vars

\* a delete_artifact removed a file outside the counted categories, which a
\* save_artifact had written, on a store that has its ProjectMeta
C28_Witness ==
    \E t \in Callers :
       /\ out[t].op = "delete_artifact"
       /\ out[t].value = "True"
       /\ uncounted(out[t].path)
       /\ meta.kind = "json"

(* ---- C29 ---- *)
\* C29: a save_artifact on a counted category that found no ProjectMeta (the
\* save issued right after construction, before the initialization) has
\* written its file and returned its location without an error and without
\* counting; and once the initialization has run as far as it goes,
\* ProjectMeta exists with that category's counter at 0 although the file is
\* there.
C29_EarlySaveNotCounted ==
    \A t \in Callers :
       ( /\ out[t].op = "save_artifact"
         /\ out[t].outcome = "ok"
         /\ ~uncounted(out[t].path)
         /\ hist[artifact_type(out[t].path)].unlinked = 0 )
       => /\ out[t].value = "location"
          /\ files[out[t].path].kind = "text"
          /\ out[t].fileDone /\ ~out[t].countDone
          /\ InitSettled =>
                /\ meta.kind = "json"
                /\ meta.data.artifact_count[artifact_type(out[t].path)] = 0

====
